---- MODULE Spec2Model ----
(***************************************************************************)
(* Confluence tools for Open WebUI: a model of the two tool entry points   *)
(* (search_confluence, get_confluence_page) of confluence_search.py,       *)
(* confluence_page.py and of the original combined tool confluence_api.py, *)
(* and of the pure helpers they call (credential resolution, the CQL       *)
(* query builder, strip_images).                                           *)
(*                                                                         *)
(* Text is modelled as a sequence of one-character strings, so that        *)
(* splitting, joining and pattern matching are computed, not assumed.      *)
(***************************************************************************)
EXTENDS Integers, Sequences, FiniteSets, TLC

VARIABLES
    tool,           \* which entry point runs (file + function)
    valves,         \* Tools.valves: the deployment configuration
    user,           \* the __user__ argument
    typeArg,        \* the `type` argument of search_confluence
    query,          \* the `query` argument of search_confluence
    page_id,        \* the `page_id` argument of get_confluence_page
    pc,             \* position of the invocation
    creds,          \* api_username, api_key, api_key_auth (locals)
    confluence,     \* the Confluence client object (base_url, headers)
    search_type,    \* local search_type
    searchResponse, \* local searchResponse: ids returned by the search
    idx,            \* position of the for loop in searchResponse
    result,         \* local result: the page record just built
    results,        \* local results
    exc,            \* the exception being handled, if any
    ret,            \* the value returned to the caller
    log,            \* requests issued and events the sink received, in order
    qparams,        \* query builder: params sent to content/search
    body,           \* strip_images: markdown body before post-processing
    mode,           \* strip_images: strip_images_mode
    stripped,       \* strip_images: body after post-processing
    inv,            \* interleaved invocations: the locals of each one
    alone           \* the same invocations, each run alone under its start configuration

vars == <<tool, valves, user, typeArg, query, page_id, pc, creds, confluence,
          search_type, searchResponse, idx, result, results, exc, ret, log,
          qparams, body, mode, stripped, inv, alone>>

queryVars == <<qparams>>
stripVars == <<body, mode, stripped>>
concVars == <<inv, alone>>

None == "None"

----------------------------------------------------------------------------
(* Bounds *)

MaxIds == 2         \* longest list of ids a search response carries
MaxQueryFrags == 3  \* a raw query is at most this many fragments long
MaxBodyFrags == 6   \* a markdown body is at most this many fragments long

----------------------------------------------------------------------------
(* Text helpers *)

RECURSIVE Concat(_)
Concat(ss) == IF ss = <<>> THEN <<>> ELSE Head(ss) \o Concat(Tail(ss))

RECURSIVE Join(_, _)
\* sep.join(parts)
Join(sep, parts) ==
    IF parts = <<>> THEN <<>>
    ELSE IF Len(parts) = 1 THEN parts[1]
    ELSE parts[1] \o sep \o Join(sep, Tail(parts))

\* str.isspace for the characters of the model's alphabet
IsSpace(c) == c \in {" ", "\t", "\n"}

\* (mutant) query.split(" "): every single space separates, empty terms are kept
Split_OnSpace(s) ==
    LET F[i \in 0..Len(s)] ==
            IF i = 0 THEN [terms |-> <<>>, cur |-> <<>>]
            ELSE LET p == F[i - 1] IN
                 IF s[i] = " "
                 THEN [terms |-> Append(p.terms, p.cur), cur |-> <<>>]
                 ELSE [terms |-> p.terms, cur |-> Append(p.cur, s[i])]
        last == F[Len(s)]
    IN  IF s = <<>> THEN <<>> ELSE Append(last.terms, last.cur)

\* str.split() with no separator: runs of whitespace separate the terms and
\* leading/trailing whitespace yields no empty term
Split(s) ==
    LET F[i \in 0..Len(s)] ==
            IF i = 0 THEN [terms |-> <<>>, cur |-> <<>>]
            ELSE LET p == F[i - 1] IN
                 IF IsSpace(s[i])
                 THEN IF p.cur # <<>>
                      THEN [terms |-> Append(p.terms, p.cur), cur |-> <<>>]
                      ELSE p
                 ELSE [terms |-> p.terms, cur |-> Append(p.cur, s[i])]
        last == F[Len(s)]
    IN  IF last.cur # <<>> THEN Append(last.terms, last.cur) ELSE last.terms

----------------------------------------------------------------------------
(* Python truthiness of str, and `a or b` *)

Truthy(s) == s # ""
\* (mutant) the operands of `or` swapped: the default wins over the override
PyOr_Swapped(a, b) == IF Truthy(b) THEN b ELSE a
PyOr(a, b) == IF Truthy(a) THEN a ELSE b

----------------------------------------------------------------------------
(* EventEmitter *)

\* f"{done and (error and 'X' or 'V') or 'magnifier'}"
Glyph(done, error) ==
    IF done THEN (IF error THEN "cross_mark" ELSE "check_mark") ELSE "magnifier"

StatusEvent(description, done, error) ==
    [type |-> "status",
     data |-> [description |-> [glyph |-> Glyph(done, error), text |-> description],
               status |-> IF done THEN "complete" ELSE "in_progress",
               done |-> done]]

SourceEvent(name, url, content) ==
    [type |-> "citation",
     data |-> [document |-> <<content>>,
               metadata |-> <<[source |-> url, html |-> FALSE]>>,
               source |-> [name |-> name]]]

----------------------------------------------------------------------------
(* Tools *)

SearchTool == "confluence_search.search_confluence"
PageTool == "confluence_page.get_confluence_page"
ApiSearchTool == "confluence_api.search_confluence"
ApiPageTool == "confluence_api.get_confluence_page"

IsSearch(t) == t \in {SearchTool, ApiSearchTool}
IsPage(t) == t \in {PageTool, ApiPageTool}
IsLegacy(t) == t \in {ApiSearchTool, ApiPageTool}

----------------------------------------------------------------------------
(* Credential resolution and validation (head of both entry points) *)

\* `__user__ and "valves" in __user__`
HasUserValves(u) == u.nonempty /\ u.has_valves

\* confluence_search.py 210-218, confluence_page.py 186-194.
\* Reading an attribute of a valves object that is not a UserValves raises.
ResolveCredentials(v, u) ==
    IF HasUserValves(u)
    THEN IF u.valves.class # "UserValves"
         THEN [raised |-> TRUE, e |-> "AttributeError"]
         ELSE [raised |-> FALSE,
               api_key_auth |-> u.valves.api_key_auth,
               api_username |-> PyOr(u.valves.username, v.username),
               api_key |-> PyOr(u.valves.api_key, v.api_key)]
    ELSE [raised |-> FALSE,
          api_key_auth |-> TRUE,
          api_username |-> v.username,
          api_key |-> v.api_key]

\* `(api_key_auth and not api_username) or not api_key`
CredentialsMissing(c) ==
    (c.api_key_auth /\ ~Truthy(c.api_username)) \/ ~Truthy(c.api_key)

MissingCredentialsText == "Please provide a username and API key or personal access token."

----------------------------------------------------------------------------
(* Confluence client *)

\* base64 of "username:api_key", kept as the text it encodes
authenticate_api_key(username, api_key) ==
    [Authorization |-> <<"Basic", <<username, ":", api_key>>>>]

authenticate_personal_access_token(access_token) ==
    [Authorization |-> <<"Bearer", <<access_token>>>>]

authenticate(username, api_key, api_key_auth) ==
    IF api_key_auth THEN authenticate_api_key(username, api_key)
    ELSE authenticate_personal_access_token(api_key)

\* Confluence.__init__ of the three files
NewConfluence(t, c, v) ==
    IF IsLegacy(t)
    THEN [base_url |-> v.base_url,
          headers |-> authenticate_api_key(v.username, v.api_key)]
    ELSE [base_url |-> v.base_url,
          headers |-> authenticate(c.api_username, c.api_key, c.api_key_auth)]

\* Confluence.get: the request as it leaves the client
Request(c, endpoint, params) ==
    [kind |-> "request", url |-> <<c.base_url, "/rest/api/", endpoint>>,
     params |-> params, headers |-> c.headers]

\* requests.get returning: the response as the client receives it
Response(response) == [kind |-> "response", ok |-> response.ok, json |-> response.json]

\* Confluence.get: what the caller receives for a response.
\* The original tool returns response.json() whatever the status.
Get(t, response) ==
    IF ~IsLegacy(t) /\ ~response.ok
    THEN [raised |-> TRUE, e |-> "Failed to get data from Confluence"]
    ELSE [raised |-> FALSE, value |-> response.json]

----------------------------------------------------------------------------
(* Query builder *)

OrSep == <<" ", "O", "R", " ">>
Quote == <<"\"">>
TitleOpen == <<"t", "i", "t", "l", "e", " ", "~", " ", "\"">>
TextOpen == <<"t", "e", "x", "t", " ", "~", " ", "\"">>
PageSuffix == <<")", " ", "A", "N", "D", " ", "t", "y", "p", "e", "=",
                "\"", "p", "a", "g", "e", "\"">>

\* f'title ~ "{term}"'
TitleClause(term) == TitleOpen \o term \o Quote
\* f'text ~ "{term}"'
TextClause(term) == TextOpen \o term \o Quote
\* f'title ~ "{term}" OR text ~ "{term}"'
TitleAndContentClause(term) == TitleClause(term) \o OrSep \o TextClause(term)

search_by_title(q, limit) ==
    LET terms == Split(q)
        cql_terms == IF terms # <<>>
                     THEN Join(OrSep, [i \in 1..Len(terms) |-> TitleClause(terms[i])])
                     ELSE TitleClause(q)
    IN  [cql |-> <<"(">> \o cql_terms \o PageSuffix, limit |-> limit]

search_by_content(q, limit) ==
    LET terms == Split(q)
        cql_terms == IF terms # <<>>
                     THEN Join(OrSep, [i \in 1..Len(terms) |-> TextClause(terms[i])])
                     ELSE TextClause(q)
    IN  [cql |-> <<"(">> \o cql_terms \o PageSuffix, limit |-> limit]

search_by_title_and_content(q, limit) ==
    LET terms == Split(q)
        cql_terms == IF terms # <<>>
                     THEN Join(OrSep, [i \in 1..Len(terms) |->
                                           TitleAndContentClause(terms[i])])
                     ELSE TitleAndContentClause(q)
    IN  [cql |-> <<"(">> \o cql_terms \o PageSuffix, limit |-> limit]

ApiLimit == 5

\* confluence_api.py: f"title ~ '{query}' OR text ~ '{query}' AND type = 'page'"
api_search(q) ==
    [cql |-> <<"t", "i", "t", "l", "e", " ", "~", " ", "'">> \o q
             \o <<"'", " ", "O", "R", " ", "t", "e", "x", "t", " ", "~", " ", "'">> \o q
             \o <<"'", " ", "A", "N", "D", " ", "t", "y", "p", "e", " ", "=", " ",
                  "'", "p", "a", "g", "e", "'">>,
     limit |-> ApiLimit]

\* the if/elif/else on search_type in search_confluence
Dispatch(st) ==
    IF st = "title" THEN "search_by_title"
    ELSE IF st = "content" THEN "search_by_content"
    ELSE "search_by_title_and_content"

\* params of the request an operation sends to content/search
SearchParams(op, q, limit) ==
    CASE op = "search_by_title" -> search_by_title(q, limit)
      [] op = "search_by_content" -> search_by_content(q, limit)
      [] op = "search_by_title_and_content" -> search_by_title_and_content(q, limit)
      [] op = "api_search" -> api_search(q)

\* str.lower() of the `type` argument, for the values the model passes
Lower(s) ==
    CASE s = "TITLE" -> "title"
      [] s = "Content" -> "content"
      [] OTHER -> s

----------------------------------------------------------------------------
(* Page normalization *)

\* markdownify, for the two kinds of HTML node the model's pages hold:
\* a text node is kept, <img alt=.. src=..> becomes ![alt](src)
MarkdownifyNode(n) ==
    IF n.tag = "img"
    THEN <<"!", "[">> \o n.alt \o <<"]", "(">> \o n.src \o <<")">>
    ELSE n.text

Markdownify(html) == Concat([i \in 1..Len(html) |-> MarkdownifyNode(html[i])])

\* First position >= i of text holding character c, or 0
RECURSIVE Find(_, _, _)
Find(text, c, i) ==
    IF i > Len(text) THEN 0
    ELSE IF text[i] = c THEN i
    ELSE Find(text, c, i + 1)

DataPrefix == <<"d", "a", "t", "a", ":">>

HasPrefixAt(text, pre, i) ==
    /\ i + Len(pre) - 1 <= Len(text)
    /\ \A k \in 1..Len(pre) : text[i + k - 1] = pre[k]

\* re.match at position i of  !\[[^\]]*\]\([^)]+\)  (strip_all) or of
\* !\[[^\]]*\]\(data:[^)]+\)  : the position of the closing parenthesis, or 0.
\* [^\]]* stops at the first "]" and [^)]+ at the first ")", so the match, when
\* there is one, is unique.
ImageMatchEnd(text, i, strip_all) ==
    IF ~(i + 1 <= Len(text) /\ text[i] = "!" /\ text[i + 1] = "[") THEN 0
    ELSE LET j == Find(text, "]", i + 2) IN
         IF j = 0 \/ j + 1 > Len(text) \/ text[j + 1] # "(" THEN 0
         ELSE LET u == IF strip_all THEN j + 2 ELSE j + 2 + Len(DataPrefix)
                  k == Find(text, ")", u)
              IN  IF ~strip_all /\ ~HasPrefixAt(text, DataPrefix, j + 2) THEN 0
                  ELSE IF k = 0 \/ k = u THEN 0
                  ELSE k

\* re.sub(image pattern, "", text): leftmost non-overlapping matches, one pass
RECURSIVE SubImages(_, _, _)
SubImages(text, i, strip_all) ==
    IF i > Len(text) THEN <<>>
    ELSE LET k == ImageMatchEnd(text, i, strip_all) IN
         IF k # 0 THEN SubImages(text, k + 1, strip_all)
         ELSE <<text[i]>> \o SubImages(text, i + 1, strip_all)

\* End of the run of "\n" that starts at i
RECURSIVE NewlineRunEnd(_, _)
NewlineRunEnd(text, i) ==
    IF i + 1 <= Len(text) /\ text[i + 1] = "\n" THEN NewlineRunEnd(text, i + 1) ELSE i

\* re.sub(r"\n{3,}", "\n\n", text)
RECURSIVE SubBlankLines(_, _)
SubBlankLines(text, i) ==
    IF i > Len(text) THEN <<>>
    ELSE IF text[i] = "\n" /\ NewlineRunEnd(text, i) >= i + 2
         THEN <<"\n", "\n">> \o SubBlankLines(text, NewlineRunEnd(text, i) + 1)
         ELSE <<text[i]>> \o SubBlankLines(text, i + 1)

strip_images(text, strip_all) == SubBlankLines(SubImages(text, 1, strip_all), 1)

StripModes == {"none", "base64", "all"}

\* get_page of confluence_page.py, after markdownify: "Strip images if configured"
StripByMode(md, strip_images_mode) ==
    IF strip_images_mode = "all" THEN strip_images(md, TRUE)
    ELSE IF strip_images_mode = "base64" THEN strip_images(md, FALSE)
    ELSE md

PageFields == {"id", "title", "body", "links"}

\* get_page of confluence_search.py and confluence_api.py (the latter's record
\* has no id); `links` stands for the payload's _links
search_get_page(t, base_url, response) ==
    LET r == Get(t, response) IN
    IF r.raised THEN r
    ELSE IF ~(PageFields \subseteq DOMAIN r.value) THEN [raised |-> TRUE, e |-> "KeyError"]
    ELSE [raised |-> FALSE,
          value |-> [id |-> IF IsLegacy(t) THEN "" ELSE r.value.id,
                     title |-> r.value.title,
                     body |-> Markdownify(r.value.body.view.value),
                     link |-> <<base_url, r.value.links.webui>>]]

\* get_page of confluence_page.py
page_get_page(t, base_url, response, strip_images_mode) ==
    LET r == Get(t, response) IN
    IF r.raised THEN r
    ELSE IF ~(PageFields \subseteq DOMAIN r.value) THEN [raised |-> TRUE, e |-> "KeyError"]
    ELSE [raised |-> FALSE,
          value |-> [id |-> r.value.id,
                     title |-> r.value.title,
                     body |-> StripByMode(Markdownify(r.value.body.view.value),
                                          strip_images_mode),
                     link |-> <<base_url, r.value.links.webui>>]]

get_page(t, base_url, response, strip_images_mode) ==
    IF t = PageTool THEN page_get_page(t, base_url, response, strip_images_mode)
    ELSE search_get_page(t, base_url, response)

\* search_by_* / search, after the request: the ids of rawResponse["results"]
search_ids(t, response) ==
    LET r == Get(t, response) IN
    IF r.raised THEN r
    ELSE IF "results" \notin DOMAIN r.value THEN [raised |-> TRUE, e |-> "KeyError"]
    ELSE [raised |-> FALSE,
          value |-> [i \in 1..Len(r.value.results) |-> r.value.results[i].id]]

----------------------------------------------------------------------------
(* The environment: the remote API and the arguments of an invocation *)

PageIds == {"101", "102"}

\* body.view.value of each page: 101 embeds a data-URI image, 102 links one
PageHtml(id) ==
    IF id = "101"
    THEN <<[tag |-> "text", text |-> <<"a">>],
           [tag |-> "img", alt |-> <<"i">>, src |-> DataPrefix \o <<"x">>]>>
    ELSE <<[tag |-> "img", alt |-> <<"i">>, src |-> <<"u">>],
           [tag |-> "text", text |-> <<"b">>]>>

RawPage(id) ==
    [id |-> id, title |-> <<"Title ", id>>,
     body |-> [view |-> [value |-> PageHtml(id)]],
     links |-> [webui |-> <<"/pages/", id>>]]

ErrorBody == [message |-> "error"]

\* Responses to GET content/{id}: the page, a payload without _links, a non-2xx
PageResponses(id) ==
    {[ok |-> TRUE, json |-> RawPage(id)],
     [ok |-> TRUE, json |-> [id |-> id, title |-> <<"Title ", id>>,
                             body |-> [view |-> [value |-> PageHtml(id)]]]],
     [ok |-> FALSE, json |-> ErrorBody]}

IdSeqs == UNION {[1..n -> PageIds] : n \in 0..MaxIds}

\* Responses to GET content/search: a list of results, a non-2xx
SearchResponses ==
    {[ok |-> TRUE, json |-> [results |-> [i \in 1..Len(ids) |-> [id |-> ids[i]]]]]
        : ids \in IdSeqs}
    \cup {[ok |-> FALSE, json |-> ErrorBody]}

NoValves == [class |-> "absent", api_key_auth |-> TRUE, username |-> "", api_key |-> ""]

\* __user__: {} , a dict without "valves", a dict whose "valves" is None,
\* a dict with a UserValves
UserContexts ==
    {[nonempty |-> FALSE, has_valves |-> FALSE, valves |-> NoValves],
     [nonempty |-> TRUE, has_valves |-> FALSE, valves |-> NoValves],
     [nonempty |-> TRUE, has_valves |-> TRUE,
      valves |-> [NoValves EXCEPT !.class = "NoneType"]]}
    \cup {[nonempty |-> TRUE, has_valves |-> TRUE,
           valves |-> [class |-> "UserValves", api_key_auth |-> a,
                       username |-> u, api_key |-> k]]
             : a \in BOOLEAN, u \in {"", "bob"}, k \in {"", "TOKEN"}}

DefaultResultLimit == 5

ValvesSet(t) ==
    [base_url : {"https://wiki"},
     username : {"", "admin"},
     api_key : {"", "ABCD1234"},
     result_limit : IF t = SearchTool THEN {1, DefaultResultLimit}
                    ELSE {DefaultResultLimit},
     strip_images : IF t = PageTool THEN StripModes ELSE {"base64"}]

TypeArgs == {"title", "TITLE", "Content", "title_and_content", "anything", None}

Queries == {<<"a", " ", "b">>}

AllTools == {SearchTool, PageTool, ApiSearchTool, ApiPageTool}

NoRecord == [id |-> "", title |-> <<>>, body |-> <<>>, link |-> <<>>]
NoReturn == [kind |-> "none"]

----------------------------------------------------------------------------
(* Return values and status texts *)

\* (mutant) the handler returns the records built before the failure
ErrorReturn_Partial(e) == [kind |-> "json", value |-> results]
\* f"Error: {e}"
ErrorReturn(e) == [kind |-> "text", prefix |-> "Error: ", rest |-> e]
\* json.dumps(value): a JSON document, which never starts with "Error: "
JsonReturn(value) == [kind |-> "json", value |-> value]

ProgressText(t) ==
    IF IsSearch(t) THEN [msg |-> "Searching for", search_type |-> search_type, arg |-> query]
    ELSE [msg |-> "Retrieving page", search_type |-> "", arg |-> page_id]

\* (mutant) the count reported is the number of pages fetched so far plus one
CompleteText_CountsLoop(t) ==
    IF IsSearch(t)
    THEN [msg |-> "Search complete", search_type |-> search_type, arg |-> query,
          results_found |-> Len(results) + 1]
    ELSE [msg |-> "Retrieved page", search_type |-> "", arg |-> page_id,
          results_found |-> 0]
CompleteText(t) ==
    IF IsSearch(t)
    THEN [msg |-> "Search complete", search_type |-> search_type, arg |-> query,
          results_found |-> Len(searchResponse)]
    ELSE [msg |-> "Retrieved page", search_type |-> "", arg |-> page_id,
          results_found |-> 0]

FailedText(t, e) ==
    IF IsSearch(t)
    THEN [msg |-> "Failed to search for", search_type |-> search_type, arg |-> query, e |-> e]
    ELSE [msg |-> "Failed to retrieve page", search_type |-> "", arg |-> page_id, e |-> e]

----------------------------------------------------------------------------
(* The entry points, one action per step between two awaits or requests *)

Init ==
    /\ tool \in AllTools
    /\ valves \in ValvesSet(tool)
    /\ user \in IF IsLegacy(tool) THEN {[nonempty |-> FALSE, has_valves |-> FALSE,
                                          valves |-> NoValves]}
                ELSE UserContexts
    /\ typeArg \in IF tool = SearchTool THEN TypeArgs ELSE {"title"}
    /\ query \in Queries
    /\ page_id \in IF IsPage(tool) THEN PageIds ELSE {"101"}
    /\ pc = "start"
    /\ creds = [raised |-> FALSE, api_key_auth |-> TRUE, api_username |-> "", api_key |-> ""]
    /\ confluence = None
    /\ search_type = ""
    /\ searchResponse = <<>>
    /\ idx = 1
    /\ result = NoRecord
    /\ results = <<>>
    /\ exc = ""
    /\ ret = NoReturn
    /\ log = <<>>
    /\ qparams = [cql |-> <<>>, limit |-> 0]
    /\ body = <<>> /\ mode = "none" /\ stripped = <<>>
    /\ inv = <<>> /\ alone = <<>>

\* What follows the in-progress status: the try block
NextAfterProgress(t) == IF IsSearch(t) THEN "search" ELSE "fetch"

\* (mutant) the in-progress status is not awaited before the try block
NextAfterBegin_SkipProgress(t, c, ty) ==
    IF IsLegacy(t) THEN NextAfterProgress(t)
    ELSE IF c.raised THEN "raised"
    ELSE IF (c.api_key_auth /\ c.api_username = "") \/ c.api_key = "" THEN "emit_invalid"
    ELSE IF t = SearchTool /\ ty = None THEN "raised"
    ELSE NextAfterProgress(t)
\* Whether Confluence(...) is reached: credentials resolved and present
ClientBuilt(t, c) == IsLegacy(t) \/ (~c.raised /\ ~CredentialsMissing(c))

\* Entry up to the first await: credentials, validation, client, type.lower().
\* None of this is inside the try block.
NextAfterBegin(t, c, ty) ==
    IF IsLegacy(t) THEN "emit_progress"
    ELSE IF c.raised THEN "raised"
    ELSE IF CredentialsMissing(c) THEN "emit_invalid"
    ELSE IF t = SearchTool /\ ty = None THEN "raised"
    ELSE "emit_progress"

Begin ==
    /\ pc = "start"
    /\ LET c == ResolveCredentials(valves, user)
           n == NextAfterBegin(tool, c, typeArg)
       IN  /\ pc' = n
           /\ creds' = IF IsLegacy(tool) \/ c.raised THEN creds ELSE c
           /\ confluence' = IF ClientBuilt(tool, c)
                            THEN NewConfluence(tool, c, valves) ELSE confluence
           /\ search_type' = IF ClientBuilt(tool, c) /\ tool = SearchTool /\ typeArg # None
                             THEN Lower(typeArg) ELSE search_type
           /\ exc' = IF n = "raised" THEN "AttributeError" ELSE exc
    /\ UNCHANGED <<tool, valves, user, typeArg, query, page_id, searchResponse, idx,
                   result, results, ret, log>>
    /\ UNCHANGED <<queryVars, stripVars, concVars>>

\* await emit_status("Please provide ...", True, True); return "Error: ..."
EmitInvalid ==
    /\ pc = "emit_invalid"
    /\ \/ /\ log' = Append(log, StatusEvent(MissingCredentialsText, TRUE, TRUE))
          /\ ret' = ErrorReturn(MissingCredentialsText)
          /\ pc' = "returned"
          /\ exc' = exc
       \/ /\ exc' = "SinkError"      \* the sink raises: nothing catches it here
          /\ pc' = "raised"
          /\ UNCHANGED <<log, ret>>
    /\ UNCHANGED <<tool, valves, user, typeArg, query, page_id, creds, confluence,
                   search_type, searchResponse, idx, result, results>>
    /\ UNCHANGED <<queryVars, stripVars, concVars>>

\* await emit_status("Searching ..." / "Retrieving ...", False), before the try
EmitProgress ==
    /\ pc = "emit_progress"
    /\ \/ /\ log' = Append(log, StatusEvent(ProgressText(tool), FALSE, FALSE))
          /\ pc' = NextAfterProgress(tool)
          /\ exc' = exc
       \/ /\ exc' = "SinkError"
          /\ pc' = "raised"
          /\ log' = log
    /\ UNCHANGED <<tool, valves, user, typeArg, query, page_id, creds, confluence,
                   search_type, searchResponse, idx, result, results, ret>>
    /\ UNCHANGED <<queryVars, stripVars, concVars>>

\* The search operation an entry point calls
SearchOpOf(t, st) == IF IsLegacy(t) THEN "api_search" ELSE Dispatch(st)

\* confluence.search_by_*(query, self.valves.result_limit) / confluence.search(query)
SearchCall ==
    /\ pc = "search"
    /\ \E response \in SearchResponses :
         LET r == search_ids(tool, response) IN
         /\ log' = log \o <<Request(confluence, <<"content/search">>,
                                    SearchParams(SearchOpOf(tool, search_type), query,
                                                 valves.result_limit)),
                            Response(response)>>
         /\ IF r.raised
            THEN /\ exc' = r.e
                 /\ pc' = "emit_failed"
                 /\ UNCHANGED <<searchResponse, idx, results>>
            ELSE /\ searchResponse' = r.value
                 /\ idx' = 1
                 /\ results' = <<>>
                 /\ pc' = IF r.value = <<>> THEN "emit_complete" ELSE "fetch"
                 /\ exc' = exc
    /\ UNCHANGED <<tool, valves, user, typeArg, query, page_id, creds, confluence,
                   search_type, result, ret>>
    /\ UNCHANGED <<queryVars, stripVars, concVars>>

\* (mutant) the loop walks searchResponse from its end
FetchTarget_Reversed(t) ==
    IF IsSearch(t) THEN searchResponse[Len(searchResponse) - idx + 1] ELSE page_id
\* The id the next get_page is called with
FetchTarget(t) == IF IsSearch(t) THEN searchResponse[idx] ELSE page_id

NextAfterFetch(t) == IF IsSearch(t) THEN "emit_source" ELSE "emit_complete"

\* result = confluence.get_page(...)
FetchPage ==
    /\ pc = "fetch"
    /\ \E response \in PageResponses(FetchTarget(tool)) :
         LET r == get_page(tool, confluence.base_url, response, valves.strip_images) IN
         /\ log' = log \o <<Request(confluence, <<"content/", FetchTarget(tool)>>,
                                    [expand |-> "body.view", include_version |-> "false"]),
                            Response(response)>>
         /\ IF r.raised
            THEN /\ exc' = r.e
                 /\ pc' = "emit_failed"
                 /\ result' = result
            ELSE /\ result' = r.value
                 /\ pc' = NextAfterFetch(tool)
                 /\ exc' = exc
    /\ UNCHANGED <<tool, valves, user, typeArg, query, page_id, creds, confluence,
                   search_type, searchResponse, idx, results, ret>>
    /\ UNCHANGED <<queryVars, stripVars, concVars>>

\* await emit_source(result["title"], result["link"], result["body"]).
\* In the search loop results.append(result) follows and the loop goes on; in
\* get_confluence_page the return of json.dumps(result) follows.
EmitSource ==
    /\ pc = "emit_source"
    /\ \/ /\ log' = Append(log, SourceEvent(result.title, result.link, result.body))
          /\ exc' = exc
          /\ IF IsSearch(tool)
             THEN /\ results' = Append(results, result)
                  /\ idx' = idx + 1
                  /\ pc' = IF idx + 1 > Len(searchResponse) THEN "emit_complete" ELSE "fetch"
                  /\ ret' = ret
             ELSE /\ ret' = JsonReturn(result)
                  /\ pc' = "returned"
                  /\ UNCHANGED <<results, idx>>
       \/ /\ exc' = "SinkError"
          /\ pc' = "emit_failed"
          /\ UNCHANGED <<log, results, idx, ret>>
    /\ UNCHANGED <<tool, valves, user, typeArg, query, page_id, creds, confluence,
                   search_type, searchResponse, result>>
    /\ UNCHANGED <<queryVars, stripVars, concVars>>

\* await emit_status("... complete. (N results found)" / "Retrieved page ...", True).
\* search_confluence returns json.dumps(results) next; get_confluence_page
\* emits the citation next.
EmitComplete ==
    /\ pc = "emit_complete"
    /\ \/ /\ log' = Append(log, StatusEvent(CompleteText(tool), TRUE, FALSE))
          /\ exc' = exc
          /\ IF IsSearch(tool)
             THEN /\ ret' = JsonReturn(results)
                  /\ pc' = "returned"
             ELSE /\ ret' = ret
                  /\ pc' = "emit_source"
       \/ /\ exc' = "SinkError"
          /\ pc' = "emit_failed"
          /\ UNCHANGED <<log, ret>>
    /\ UNCHANGED <<tool, valves, user, typeArg, query, page_id, creds, confluence,
                   search_type, searchResponse, idx, result, results>>
    /\ UNCHANGED <<queryVars, stripVars, concVars>>

\* except Exception as e: await emit_status("Failed ...", True, True); return f"Error: {e}"
EmitFailed ==
    /\ pc = "emit_failed"
    /\ \/ /\ log' = Append(log, StatusEvent(FailedText(tool, exc), TRUE, TRUE))
          /\ ret' = ErrorReturn(exc)
          /\ pc' = "returned"
          /\ exc' = exc
       \/ /\ exc' = "SinkError"      \* raised inside the handler: it propagates
          /\ pc' = "raised"
          /\ UNCHANGED <<log, ret>>
    /\ UNCHANGED <<tool, valves, user, typeArg, query, page_id, creds, confluence,
                   search_type, searchResponse, idx, result, results>>
    /\ UNCHANGED <<queryVars, stripVars, concVars>>

Next ==
    \/ Begin
    \/ EmitInvalid
    \/ EmitProgress
    \/ SearchCall
    \/ FetchPage
    \/ EmitSource
    \/ EmitComplete
    \/ EmitFailed

Spec == Init /\ [][Next]_vars

----------------------------------------------------------------------------
(* What an observer of an invocation sees *)

IsRequest(e) == "kind" \in DOMAIN e /\ e.kind = "request"
IsResponse(e) == "kind" \in DOMAIN e /\ e.kind = "response"
IsEvent(e) == "type" \in DOMAIN e
IsStatus(e) == IsEvent(e) /\ e.type = "status"
IsCitation(e) == IsEvent(e) /\ e.type = "citation"
IsPageRequest(e) == IsRequest(e) /\ Len(e.url[3]) = 2
IsSearchRequest(e) == IsRequest(e) /\ Len(e.url[3]) = 1
RequestedId(e) == e.url[3][2]

Requests == SelectSeq(log, IsRequest)
PageRequests == SelectSeq(log, IsPageRequest)
Events == SelectSeq(log, IsEvent)
Statuses == SelectSeq(log, IsStatus)
Citations == SelectSeq(log, IsCitation)

IsInProgressStatus(e) ==
    IsStatus(e) /\ ~e.data.done /\ e.data.status = "in_progress"
        /\ e.data.description.glyph = "magnifier"
IsFailedStatus(e) ==
    IsStatus(e) /\ e.data.done /\ e.data.description.glyph = "cross_mark"
IsSuccessStatus(e) ==
    IsStatus(e) /\ e.data.done /\ e.data.description.glyph = "check_mark"

\* Position in log of the n-th entry satisfying P
NthPos(P(_), n) ==
    CHOOSE p \in 1..Len(log) :
        P(log[p]) /\ Cardinality({q \in 1..p : P(log[q])}) = n

ErrorString(r) == r.kind = "text" /\ r.prefix = "Error: "
Terminated == pc \in {"returned", "raised"}
NewTools == {SearchTool, PageTool}

\* The absolute link of page id under the configured base URL
LinkOf(id) == <<valves.base_url, RawPage(id).links.webui>>

----------------------------------------------------------------------------
(* C1..C7: the entry points *)

\* C1: in search_confluence (confluence_search.py) and get_confluence_page
\* (confluence_page.py), whichever step fails, the invocation never raises to
\* its caller; once it has returned after a failure, the return value is an
\* "Error: " string and the last status event is done with the failure glyph.
C1_NeverRaises ==
    tool \in NewTools =>
        /\ pc # "raised"
        /\ (pc = "returned" /\ exc # "") =>
               /\ ErrorString(ret)
               /\ Statuses # <<>>
               /\ IsFailedStatus(Statuses[Len(Statuses)])

\* The part of C1 the code keeps: an invocation that returns after a failure
\* returns the "Error: " string after a last status that is the failed one
C1_ReportedWhenReturned ==
    (tool \in NewTools /\ pc = "returned" /\ exc # "") =>
        /\ ErrorString(ret)
        /\ Statuses # <<>>
        /\ IsFailedStatus(Statuses[Len(Statuses)])

\* The credentials resolved for this invocation are missing
CredentialsInvalid ==
    /\ tool \in NewTools
    /\ ~ResolveCredentials(valves, user).raised
    /\ CredentialsMissing(ResolveCredentials(valves, user))

\* C2: when the resolved secret is empty, or the mode is Basic and the resolved
\* username is empty, no request is ever sent, and the invocation ends by
\* returning the "Error: " string after emitting exactly one event, a failed status.
C2_InvalidCredentialsReturnError ==
    CredentialsInvalid =>
        /\ Requests = <<>>
        /\ Terminated =>
               /\ pc = "returned"
               /\ ErrorString(ret)
               /\ Len(Events) = 1
               /\ IsFailedStatus(Events[1])

\* The part of C2 the code keeps: no request, and nothing but one failed status
\* and the "Error: " string when the invocation returns
C2_NoRequest ==
    CredentialsInvalid =>
        /\ Requests = <<>>
        /\ pc = "returned" =>
               (ErrorString(ret) /\ Len(Events) = 1 /\ IsFailedStatus(Events[1]))

\* C3: in a search invocation the pages are fetched one at a time in the order
\* of the ids of the search response: the i-th page request asks for the i-th
\* id, the i-th citation is that of the i-th id, the (i+1)-th page request comes
\* after the i-th citation, and on a JSON return the citations and the records
\* are those of all the ids, in the order of the search response.
C3_FetchedInOrder ==
    IsSearch(tool) =>
        LET nf == Len(PageRequests)
            nc == Len(Citations)
        IN  /\ nc <= nf /\ nf <= Len(searchResponse)
            /\ \A i \in 1..nf : RequestedId(PageRequests[i]) = searchResponse[i]
            /\ \A i \in 1..nc :
                   Citations[i].data.metadata[1].source = LinkOf(searchResponse[i])
            /\ \A i \in 2..nf :
                   /\ i - 1 <= nc
                   /\ NthPos(IsCitation, i - 1) < NthPos(IsPageRequest, i)
            /\ (pc = "returned" /\ ret.kind = "json") =>
                   /\ nc = Len(searchResponse)
                   /\ Len(ret.value) = Len(searchResponse)
                   /\ \A i \in 1..Len(ret.value) :
                          /\ ret.value[i].link = LinkOf(searchResponse[i])
                          /\ tool = SearchTool => ret.value[i].id = searchResponse[i]

C3_Witness ==
    /\ IsSearch(tool) /\ pc = "returned" /\ ret.kind = "json"
    /\ Len(searchResponse) = 2 /\ searchResponse[1] # searchResponse[2]
    /\ Len(Citations) = 2

\* The search call of this invocation succeeded (a 2xx with a results list)
SearchSucceeded ==
    \E p \in 1..Len(log) :
        IsResponse(log[p]) /\ log[p].ok /\ "results" \in DOMAIN log[p].json

\* Number of page fetches that succeeded (a 2xx with a complete page payload)
PagesFetched ==
    Cardinality({p \in 1..Len(log) :
        IsResponse(log[p]) /\ log[p].ok /\ PageFields \subseteq DOMAIN log[p].json})

\* Some emission to the sink raised
SinkFailed == exc = "SinkError"

\* N records returned, N citations, and a last event that is the success
\* status reporting N results
SearchYields(N) ==
    /\ pc = "returned" /\ ret.kind = "json" /\ Len(ret.value) = N
    /\ Len(Citations) = N
    /\ Events # <<>>
    /\ IsSuccessStatus(Events[Len(Events)])
    /\ Events[Len(Events)].data.description.text.results_found = N
    /\ Len(SelectSeq(Statuses, LAMBDA e : e.data.done)) = 1

\* C4 as stated: every finished search invocation whose search call and N page
\* fetches all succeeded yields N records, N citations and a final success
\* status reporting N results.
C4_SuccessYieldsN ==
    (IsSearch(tool) /\ Terminated /\ SearchSucceeded
        /\ PagesFetched = Len(searchResponse))
    => SearchYields(Len(searchResponse))

\* C4 (amended): every finished search invocation whose search call and N page
\* fetches all succeeded, and in which no emission to the sink raised, yields
\* N records, N citations and a final success status reporting N results.
C4_SuccessYieldsN_Amended ==
    (IsSearch(tool) /\ Terminated /\ SearchSucceeded
        /\ PagesFetched = Len(searchResponse) /\ ~SinkFailed)
    => SearchYields(Len(searchResponse))

C4_Witness ==
    /\ IsSearch(tool) /\ Terminated /\ SearchSucceeded /\ ~SinkFailed
    /\ Len(searchResponse) = 2 /\ PagesFetched = 2
    /\ SearchYields(2)

\* C5: a successful get_confluence_page sends the sink, in this order, the
\* in-progress status, the citation of the page, and the done status, which is
\* the last event before the record is returned.
C5_CitationBeforeComplete ==
    (IsPage(tool) /\ pc = "returned" /\ ret.kind = "json") =>
        /\ Len(Events) = 3
        /\ IsInProgressStatus(Events[1])
        /\ IsCitation(Events[2])
        /\ IsSuccessStatus(Events[3])

\* C6: every remote request of an invocation comes after the sink has received
\* an in-progress status (done = false) of that invocation.
C6_ProgressBeforeRequest ==
    \A p \in 1..Len(log) :
        IsRequest(log[p]) => \E q \in 1..(p - 1) : IsInProgressStatus(log[q])

C6_Witness ==
    /\ Len(Requests) >= 2
    /\ IsInProgressStatus(log[1])

\* C7: credential resolution in search_confluence (confluence_search.py) and
\* get_confluence_page (confluence_page.py). With a UserValves O in the caller
\* context, the username is O.username when non-empty else D.username, the
\* secret is O.api_key when non-empty else D.api_key, and the mode is O's flag;
\* without one the username and secret are D's and the mode is Basic.
C7_Resolution ==
    (tool \in NewTools /\ pc # "start" /\ ~ResolveCredentials(valves, user).raised) =>
        LET D == valves
            O == user.valves
        IN  IF user.has_valves
            THEN /\ creds.api_username = (IF O.username # "" THEN O.username ELSE D.username)
                 /\ creds.api_key = (IF O.api_key # "" THEN O.api_key ELSE D.api_key)
                 /\ creds.api_key_auth = O.api_key_auth
                 /\ (O.username = "" /\ O.api_key = "") =>
                        (creds.api_username = D.username /\ creds.api_key = D.api_key)
            ELSE /\ creds.api_username = D.username
                 /\ creds.api_key = D.api_key
                 /\ creds.api_key_auth = TRUE

\* An override that sets the secret only, over a default that sets both
C7_Witness ==
    /\ tool \in NewTools /\ pc # "start" /\ user.has_valves
    /\ user.valves.class = "UserValves"
    /\ user.valves.username = "" /\ user.valves.api_key = "TOKEN"
    /\ ~user.valves.api_key_auth
    /\ valves.username = "admin" /\ valves.api_key = "ABCD1234"
    /\ creds.api_username = "admin" /\ creds.api_key = "TOKEN"

----------------------------------------------------------------------------
(* The query builder on its own: any raw query, any search operation *)

\* Pieces a raw query is made of: letters, whitespace, a double quote, and a
\* piece that closes the quoted term and the parenthesis
QueryFrags ==
    {<<"a">>, <<"b">>, <<" ">>, <<"\t">>, <<"\"">>,
     <<"\"", ")", "O", "R", "(", "t", "i", "t", "l", "e", "~", "\"">>}

QueryStrings ==
    {Concat(fs) : fs \in UNION {[1..n -> QueryFrags] : n \in 0..MaxQueryFrags}}

SearchTypes == {"title", "content", "title_and_content", "anything"}

InitQuery ==
    /\ tool \in {SearchTool, ApiSearchTool}
    /\ valves \in ValvesSet(tool)
    /\ valves.username = "admin" /\ valves.api_key = "ABCD1234"
    /\ user = [nonempty |-> FALSE, has_valves |-> FALSE, valves |-> NoValves]
    /\ typeArg = "title"
    /\ search_type \in IF tool = SearchTool THEN SearchTypes ELSE {""}
    /\ query \in QueryStrings
    /\ page_id = "101"
    /\ pc = "build"
    /\ creds = [raised |-> FALSE, api_key_auth |-> TRUE, api_username |-> "", api_key |-> ""]
    /\ confluence = None
    /\ searchResponse = <<>>
    /\ idx = 1
    /\ result = NoRecord
    /\ results = <<>>
    /\ exc = ""
    /\ ret = NoReturn
    /\ log = <<>>
    /\ qparams = [cql |-> <<>>, limit |-> 0]
    /\ body = <<>> /\ mode = "none" /\ stripped = <<>>
    /\ inv = <<>> /\ alone = <<>>

\* params = {"cql": ..., "limit": limit} of the search operation the entry
\* point calls for this search_type
BuildQuery ==
    /\ pc = "build"
    /\ qparams' = SearchParams(SearchOpOf(tool, search_type), query, valves.result_limit)
    /\ pc' = "built"
    /\ UNCHANGED <<tool, valves, user, typeArg, query, page_id, creds, confluence,
                   search_type, searchResponse, idx, result, results, exc, ret, log>>
    /\ UNCHANGED <<stripVars, concVars>>

NextQuery == BuildQuery

SpecQuery == InitQuery /\ [][NextQuery]_vars

----------------------------------------------------------------------------
(* C8: the expression the query builder sends *)

\* The whitespace-separated terms of q, as the spans <<first, last>> of its
\* maximal runs of non-whitespace characters
TermSpans(q) ==
    {sp \in (1..Len(q)) \X (1..Len(q)) :
        /\ sp[1] <= sp[2]
        /\ \A k \in sp[1]..sp[2] : ~IsSpace(q[k])
        /\ (sp[1] = 1 \/ IsSpace(q[sp[1] - 1]))
        /\ (sp[2] = Len(q) \/ IsSpace(q[sp[2] + 1]))}

\* The n-th term of q, in the order of the query
TermAt(q, n) ==
    LET sp == CHOOSE s \in TermSpans(q) :
                  Cardinality({t \in TermSpans(q) : t[1] <= s[1]}) = n
    IN  SubSeq(q, sp[1], sp[2])

\* The template of a search mode, instantiated with a term
TemplateOf(m, term) ==
    LET title == <<"t", "i", "t", "l", "e", " ", "~", " ", "\"">> \o term \o <<"\"">>
        text == <<"t", "e", "x", "t", " ", "~", " ", "\"">> \o term \o <<"\"">>
    IN  CASE m = "title" -> title
          [] m = "content" -> text
          [] m = "title_and_content" -> title \o <<" ", "O", "R", " ">> \o text

\* C for a mode and a raw query
ClausesOf(m, q) ==
    LET n == Cardinality(TermSpans(q)) IN
    IF n = 0 THEN TemplateOf(m, q)
    ELSE Join(<<" ", "O", "R", " ">>, [i \in 1..n |-> TemplateOf(m, TermAt(q, i))])

CountOf(c, s) == Cardinality({i \in 1..Len(s) : s[i] = c})

SearchModes == {"title", "content", "title_and_content"}

\* C8: for every raw query and every search mode, the expression sent is
\* "(" + C + ") AND type=\"page\"", C being the mode's template instantiated
\* once per whitespace-separated term in term order and joined by " OR ", or
\* once with the raw query when it has no term; as many templates (counted by
\* their ~ operators, those of the query's own text set aside) as terms; and
\* the limit sent is the configured result limit.
C8_Expression ==
    (tool = SearchTool /\ pc = "built" /\ search_type \in SearchModes) =>
        LET n == Cardinality(TermSpans(query))
            perTerm == IF search_type = "title_and_content" THEN 2 ELSE 1
        IN  /\ qparams.cql = <<"(">> \o ClausesOf(search_type, query)
                  \o <<")", " ", "A", "N", "D", " ", "t", "y", "p", "e", "=",
                       "\"", "p", "a", "g", "e", "\"">>
            /\ CountOf("~", qparams.cql) - perTerm * CountOf("~", query)
                  = perTerm * (IF n = 0 THEN 1 ELSE n)
            /\ qparams.limit = valves.result_limit

\* Two terms between runs of mixed whitespace, and a query without any term
C8_Witness ==
    /\ tool = SearchTool /\ pc = "built" /\ search_type = "title_and_content"
    /\ query = <<"a", "\t", "b">>
    /\ CountOf("~", qparams.cql) = 4
    /\ valves.result_limit = 1

C8_WitnessEmpty ==
    /\ tool = SearchTool /\ pc = "built" /\ search_type = "title"
    /\ query = <<" ", " ">>
    /\ CountOf("~", qparams.cql) = 1

----------------------------------------------------------------------------
(* C9: what the expression sent to content/search selects.                 *)
(* The expression is read as the search endpoint reads it: tokens, then    *)
(* clauses `field operator "value"` combined by AND and OR with AND        *)
(* binding tighter than OR, and parentheses for grouping.                  *)

Tok(t, v) == [t |-> t, v |-> v]

IsWordChar(c) == ~IsSpace(c) /\ c \notin {"(", ")", "~", "=", "\"", "'"}

\* Last position of the run of word characters that starts at i
RECURSIVE WordEnd(_, _)
WordEnd(s, i) ==
    IF i + 1 <= Len(s) /\ IsWordChar(s[i + 1]) THEN WordEnd(s, i + 1) ELSE i

\* The tokens of s from position i on; an unterminated quoted value is an error
RECURSIVE Lex(_, _)
Lex(s, i) ==
    IF i > Len(s) THEN <<>>
    ELSE LET c == s[i] IN
         IF IsSpace(c) THEN Lex(s, i + 1)
         ELSE IF c = "(" THEN <<Tok("lp", <<>>)>> \o Lex(s, i + 1)
         ELSE IF c = ")" THEN <<Tok("rp", <<>>)>> \o Lex(s, i + 1)
         ELSE IF c \in {"~", "="} THEN <<Tok("op", <<c>>)>> \o Lex(s, i + 1)
         ELSE IF c \in {"\"", "'"}
              THEN LET j == Find(s, c, i + 1) IN
                   IF j = 0 THEN <<Tok("err", <<>>)>>
                   ELSE <<Tok("str", SubSeq(s, i + 1, j - 1))>> \o Lex(s, j + 1)
         ELSE <<Tok("word", SubSeq(s, i, WordEnd(s, i)))>> \o Lex(s, WordEnd(s, i) + 1)

Fail == [ok |-> FALSE, val |-> FALSE, pos |-> 0]

IsKeyword(toks, i, kw) == i <= Len(toks) /\ toks[i].t = "word" /\ toks[i].v = kw

\* Whether a content item satisfies the clause `field op "v"`: ~ matches an item
\* whose field holds the word v, = compares the type
ClauseHolds(item, field, op, v) ==
    CASE field = <<"t", "i", "t", "l", "e">> /\ op = <<"~">> -> v \in item.title
      [] field = <<"t", "e", "x", "t">> /\ op = <<"~">> -> v \in item.text
      [] field = <<"t", "y", "p", "e">> /\ op = <<"=">> -> v = item.type
      [] OTHER -> FALSE

RECURSIVE ParseOr(_, _, _)
RECURSIVE ParseOrRest(_, _, _)
RECURSIVE ParseAnd(_, _, _)
RECURSIVE ParseAndRest(_, _, _)
RECURSIVE ParseAtom(_, _, _)

\* atom ::= "(" or ")" | word op str ; a clause with an empty value is rejected
ParseAtom(toks, i, item) ==
    IF i > Len(toks) THEN Fail
    ELSE IF toks[i].t = "lp"
         THEN LET r == ParseOr(toks, i + 1, item) IN
              IF r.ok /\ r.pos <= Len(toks) /\ toks[r.pos].t = "rp"
              THEN [r EXCEPT !.pos = r.pos + 1]
              ELSE Fail
    ELSE IF /\ toks[i].t = "word" /\ i + 2 <= Len(toks)
            /\ toks[i + 1].t = "op" /\ toks[i + 2].t = "str" /\ toks[i + 2].v # <<>>
         THEN [ok |-> TRUE,
               val |-> ClauseHolds(item, toks[i].v, toks[i + 1].v, toks[i + 2].v),
               pos |-> i + 3]
    ELSE Fail

\* and ::= atom (AND atom)*
ParseAndRest(toks, l, item) ==
    IF l.ok /\ IsKeyword(toks, l.pos, <<"A", "N", "D">>)
    THEN LET r == ParseAtom(toks, l.pos + 1, item) IN
         IF r.ok THEN ParseAndRest(toks, [r EXCEPT !.val = l.val /\ r.val], item)
         ELSE Fail
    ELSE l

ParseAnd(toks, i, item) == ParseAndRest(toks, ParseAtom(toks, i, item), item)

\* or ::= and (OR and)*
ParseOrRest(toks, l, item) ==
    IF l.ok /\ IsKeyword(toks, l.pos, <<"O", "R">>)
    THEN LET r == ParseAnd(toks, l.pos + 1, item) IN
         IF r.ok THEN ParseOrRest(toks, [r EXCEPT !.val = l.val \/ r.val], item)
         ELSE Fail
    ELSE l

ParseOr(toks, i, item) == ParseOrRest(toks, ParseAnd(toks, i, item), item)

\* An expression that does not parse selects nothing
Satisfies(item, cql) ==
    LET toks == Lex(cql, 1)
        r == ParseOr(toks, 1, item)
    IN  r.ok /\ r.pos = Len(toks) + 1 /\ r.val

PageType == <<"p", "a", "g", "e">>
BlogType == <<"b", "l", "o", "g", "p", "o", "s", "t">>

\* Content items: a type, the words of the title, the words of the text
ContentItems ==
    [type : {PageType, BlogType},
     title : SUBSET {<<"a">>, <<"b">>},
     text : SUBSET {<<"a">>, <<"b">>}]

\* C9: for every raw query and every search operation of the repository, no
\* content item whose type is not page satisfies the expression sent to the
\* search endpoint.
C9_OnlyPages ==
    pc = "built" =>
        \A item \in ContentItems :
            Satisfies(item, qparams.cql) => item.type = PageType

\* The same for the three mode-specific searches alone, and for them with
\* queries made of letters and whitespace only
C9_OnlyPages_ModeSearches ==
    (pc = "built" /\ tool = SearchTool) =>
        \A item \in ContentItems :
            Satisfies(item, qparams.cql) => item.type = PageType

C9_OnlyPages_PlainQueries ==
    (pc = "built" /\ tool = SearchTool
        /\ \A i \in 1..Len(query) : query[i] \in {"a", "b", " ", "\t"}) =>
        \A item \in ContentItems :
            Satisfies(item, qparams.cql) => item.type = PageType

\* The original combined tool alone
C9_OnlyPages_OriginalTool ==
    (pc = "built" /\ tool = ApiSearchTool) =>
        \A item \in ContentItems :
            Satisfies(item, qparams.cql) => item.type = PageType

\* Some page is selected: the expressions do parse and filter
C9_SomePageSelected ==
    /\ pc = "built" /\ query = <<"a", " ", "b">>
    /\ \E item \in ContentItems : Satisfies(item, qparams.cql)
    /\ \E item \in ContentItems : item.type = PageType /\ ~Satisfies(item, qparams.cql)

----------------------------------------------------------------------------
(* strip_images on its own: any markdown body, any policy *)

\* Pieces a markdown body is made of
BodyFrags ==
    {<<"!">>, <<"[", "a", "]">>, <<"(", "u", ")">>,
     <<"(", "d", "a", "t", "a", ":", "u", ")">>, <<"\n">>}

Bodies ==
    {Concat(fs) : fs \in UNION {[1..n -> BodyFrags] : n \in 0..MaxBodyFrags}}

InitStrip ==
    /\ tool = PageTool
    /\ valves \in ValvesSet(PageTool)
    /\ valves.username = "admin" /\ valves.api_key = "ABCD1234"
    /\ mode = valves.strip_images
    /\ user = [nonempty |-> FALSE, has_valves |-> FALSE, valves |-> NoValves]
    /\ typeArg = "title"
    /\ search_type = ""
    /\ query = <<>>
    /\ page_id = "101"
    /\ pc = "strip"
    /\ creds = [raised |-> FALSE, api_key_auth |-> TRUE, api_username |-> "", api_key |-> ""]
    /\ confluence = None
    /\ searchResponse = <<>>
    /\ idx = 1
    /\ result = NoRecord
    /\ results = <<>>
    /\ exc = ""
    /\ ret = NoReturn
    /\ log = <<>>
    /\ qparams = [cql |-> <<>>, limit |-> 0]
    /\ body \in Bodies
    /\ stripped = <<>>
    /\ inv = <<>> /\ alone = <<>>

\* get_page of confluence_page.py between markdownify and the record
ApplyStrip ==
    /\ pc = "strip"
    /\ stripped' = StripByMode(body, mode)
    /\ pc' = "stripped"
    /\ UNCHANGED <<tool, valves, user, typeArg, query, page_id, creds, confluence,
                   search_type, searchResponse, idx, result, results, exc, ret, log>>
    /\ UNCHANGED <<queryVars, body, mode, concVars>>

NextStrip == ApplyStrip

SpecStrip == InitStrip /\ [][NextStrip]_vars

----------------------------------------------------------------------------
(* C10: image references left by each policy *)

\* The image references ![alt](url) of text, as <<first, bracket, last>>: "!["
\* at first, an alt without "]" up to the "]" at bracket, "(" next, a non-empty
\* url without ")" up to the ")" at last
ImageRefs(text) ==
    {r \in (1..Len(text)) \X (1..Len(text)) \X (1..Len(text)) :
        /\ r[1] + 2 <= r[2] /\ r[2] + 3 <= r[3]
        /\ text[r[1]] = "!" /\ text[r[1] + 1] = "["
        /\ \A k \in (r[1] + 2)..(r[2] - 1) : text[k] # "]"
        /\ text[r[2]] = "]" /\ text[r[2] + 1] = "("
        /\ \A k \in (r[2] + 2)..(r[3] - 1) : text[k] # ")"
        /\ text[r[3]] = ")"}

UrlOf(text, r) == SubSeq(text, r[2] + 2, r[3] - 1)
RefText(text, r) == SubSeq(text, r[1], r[3])

IsDataUrl(u) ==
    Len(u) >= 5 /\ SubSeq(u, 1, 5) = <<"d", "a", "t", "a", ":">>

DataRefs(text) == {r \in ImageRefs(text) : IsDataUrl(UrlOf(text, r))}
OtherRefs(text) == ImageRefs(text) \ DataRefs(text)

\* Every reference of `before` with a url that is not a data: url is still in
\* `after`, as many times
OtherRefsKept(before, after) ==
    \A r \in OtherRefs(before) :
        Cardinality({x \in OtherRefs(after) : RefText(after, x) = RefText(before, r)})
            >= Cardinality({x \in OtherRefs(before) :
                               RefText(before, x) = RefText(before, r)})

\* C10: with policy "all" the resulting body contains no image reference; with
\* "base64" it contains none whose url begins with data: and keeps every
\* reference with another url; with "none" the body is returned unchanged.
C10_ImagePolicy ==
    pc = "stripped" =>
        /\ mode = "all" => ImageRefs(stripped) = {}
        /\ mode = "base64" =>
               (DataRefs(stripped) = {} /\ OtherRefsKept(body, stripped))
        /\ mode = "none" => stripped = body

\* The parts of C10, one at a time
C10_AllLeavesNone == (pc = "stripped" /\ mode = "all") => ImageRefs(stripped) = {}
C10_Base64LeavesNoData == (pc = "stripped" /\ mode = "base64") => DataRefs(stripped) = {}
C10_Base64KeepsOthers ==
    (pc = "stripped" /\ mode = "base64") => OtherRefsKept(body, stripped)
C10_NoneUnchanged == (pc = "stripped" /\ mode = "none") => stripped = body

\* Each policy does remove the references the body had before the call
C10_RefsOfBodyRemoved ==
    pc = "stripped" =>
        /\ mode = "all" => Len(stripped) <= Len(body) - 6 * Cardinality(ImageRefs(body))
        /\ mode = "base64" => Len(stripped) <= Len(body) - 11 * Cardinality(DataRefs(body))

----------------------------------------------------------------------------
(* Interleaved invocations on one Tools instance.  self.valves is the only   *)
(* object the invocations share; everything else (event_emitter, the         *)
(* credentials, confluence, search_type, searchResponse, results, result)    *)
(* is a local of the coroutine.  A coroutine is suspended only at an await   *)
(* on its event sink: requests.get blocks the event loop.                    *)

MaxConcIds == 1     \* longest list of ids a search response carries here

Invocations == {1, 2}

\* The locals of a coroutine, as functions of its local state s
ProgressTextOf(t, s) ==
    IF IsSearch(t) THEN [msg |-> "Searching for", search_type |-> s.search_type, arg |-> s.query]
    ELSE [msg |-> "Retrieving page", search_type |-> "", arg |-> s.page_id]

CompleteTextOf(t, s) ==
    IF IsSearch(t)
    THEN [msg |-> "Search complete", search_type |-> s.search_type, arg |-> s.query,
          results_found |-> Len(s.searchResponse)]
    ELSE [msg |-> "Retrieved page", search_type |-> "", arg |-> s.page_id,
          results_found |-> 0]

FailedTextOf(t, s) ==
    IF IsSearch(t)
    THEN [msg |-> "Failed to search for", search_type |-> s.search_type, arg |-> s.query,
          e |-> s.exc]
    ELSE [msg |-> "Failed to retrieve page", search_type |-> "", arg |-> s.page_id,
          e |-> s.exc]

FetchTargetOf(t, s) == IF IsSearch(t) THEN s.searchResponse[s.idx] ELSE s.page_id

\* Entry up to the first await; v is self.valves as this step reads it
BeginOf(t, s, v) ==
    LET c == ResolveCredentials(v, s.user)
        n == NextAfterBegin(t, c, s.typeArg)
    IN  [s EXCEPT !.pc = n,
                  !.creds = IF c.raised THEN @ ELSE c,
                  !.confluence = IF ClientBuilt(t, c) THEN NewConfluence(t, c, v) ELSE @,
                  !.search_type = IF ClientBuilt(t, c) /\ t = SearchTool /\ s.typeArg # None
                                  THEN Lower(s.typeArg) ELSE @,
                  !.exc = IF n = "raised" THEN "AttributeError" ELSE @]

\* The await the coroutine is suspended at completes (ok) or raises (~ok)
EmitOf(t, s, ok) ==
    CASE s.pc = "emit_invalid" ->
           IF ok THEN [s EXCEPT !.log = Append(@, StatusEvent(MissingCredentialsText, TRUE, TRUE)),
                                !.ret = ErrorReturn(MissingCredentialsText),
                                !.pc = "returned"]
           ELSE [s EXCEPT !.exc = "SinkError", !.pc = "raised"]
      [] s.pc = "emit_progress" ->
           IF ok THEN [s EXCEPT !.log = Append(@, StatusEvent(ProgressTextOf(t, s), FALSE, FALSE)),
                                !.pc = NextAfterProgress(t)]
           ELSE [s EXCEPT !.exc = "SinkError", !.pc = "raised"]
      [] s.pc = "emit_source" ->
           IF ~ok THEN [s EXCEPT !.exc = "SinkError", !.pc = "emit_failed"]
           ELSE IF IsSearch(t)
           THEN [s EXCEPT !.log = Append(@, SourceEvent(s.result.title, s.result.link,
                                                        s.result.body)),
                          !.results = Append(@, s.result),
                          !.idx = @ + 1,
                          !.pc = IF s.idx + 1 > Len(s.searchResponse)
                                 THEN "emit_complete" ELSE "fetch"]
           ELSE [s EXCEPT !.log = Append(@, SourceEvent(s.result.title, s.result.link,
                                                        s.result.body)),
                          !.ret = JsonReturn(s.result),
                          !.pc = "returned"]
      [] s.pc = "emit_complete" ->
           IF ~ok THEN [s EXCEPT !.exc = "SinkError", !.pc = "emit_failed"]
           ELSE IF IsSearch(t)
           THEN [s EXCEPT !.log = Append(@, StatusEvent(CompleteTextOf(t, s), TRUE, FALSE)),
                          !.ret = JsonReturn(s.results),
                          !.pc = "returned"]
           ELSE [s EXCEPT !.log = Append(@, StatusEvent(CompleteTextOf(t, s), TRUE, FALSE)),
                          !.pc = "emit_source"]
      [] s.pc = "emit_failed" ->
           IF ok THEN [s EXCEPT !.log = Append(@, StatusEvent(FailedTextOf(t, s), TRUE, TRUE)),
                                !.ret = ErrorReturn(s.exc),
                                !.pc = "returned"]
           ELSE [s EXCEPT !.exc = "SinkError", !.pc = "raised"]

\* confluence.search_by_*(query, self.valves.result_limit); v is self.valves as
\* this step reads it
SearchCallOf(t, s, v, response) ==
    LET r == search_ids(t, response)
        l == s.log \o <<Request(s.confluence, <<"content/search">>,
                                SearchParams(SearchOpOf(t, s.search_type), s.query,
                                             v.result_limit)),
                        Response(response)>>
    IN  IF r.raised
        THEN [s EXCEPT !.log = l, !.exc = r.e, !.pc = "emit_failed"]
        ELSE [s EXCEPT !.log = l, !.searchResponse = r.value, !.idx = 1, !.results = <<>>,
                       !.pc = IF r.value = <<>> THEN "emit_complete" ELSE "fetch"]

\* confluence.get_page(item) / confluence.get_page(page_id, self.valves.strip_images)
FetchPageOf(t, s, v, response) ==
    LET r == get_page(t, s.confluence.base_url, response, v.strip_images)
        l == s.log \o <<Request(s.confluence, <<"content/", FetchTargetOf(t, s)>>,
                                [expand |-> "body.view", include_version |-> "false"]),
                        Response(response)>>
    IN  IF r.raised
        THEN [s EXCEPT !.log = l, !.exc = r.e, !.pc = "emit_failed"]
        ELSE [s EXCEPT !.log = l, !.result = r.value, !.pc = NextAfterFetch(t)]

\* Configurations self.valves takes here: the defaults, and one that differs
\* from them in the secret and in a setting read inside the try block
ConcConfigs(t) ==
    {v \in ValvesSet(t) :
        /\ v.username = "admin"
        /\ \/ /\ v.api_key = "ABCD1234" /\ v.result_limit = DefaultResultLimit
              /\ v.strip_images = "base64"
           \/ /\ v.api_key = ""
              /\ t = SearchTool => v.result_limit = 1
              /\ t = PageTool => v.strip_images = "all"}

\* Caller contexts here: no overrides, or a personal access token of the caller
ConcUsers ==
    {u \in UserContexts :
        \/ ~u.nonempty
        \/ /\ u.valves.class = "UserValves" /\ ~u.valves.api_key_auth
           /\ u.valves.username = "" /\ u.valves.api_key = "TOKEN"}

ConcSearchResponses ==
    {r \in SearchResponses : ~r.ok \/ Len(r.json.results) <= MaxConcIds}

\* A coroutine object that has not run yet.  cfgs collects the configurations
\* in force while it is in flight.
NewInvocation(u, ty, q, p) ==
    [user |-> u, typeArg |-> ty, query |-> q, page_id |-> p,
     pc |-> "start",
     creds |-> [raised |-> FALSE, api_key_auth |-> TRUE, api_username |-> "", api_key |-> ""],
     confluence |-> None, search_type |-> "", searchResponse |-> <<>>, idx |-> 1,
     result |-> NoRecord, results |-> <<>>, exc |-> "", ret |-> NoReturn, log |-> <<>>,
     cfgs |-> {}]

\* Synchronous code of the coroutine is on the event loop
Running(s) == s.pc \in {"search", "fetch"}
\* Every other coroutine is suspended at an await, not started, or finished
LoopFree(i) == \A j \in Invocations \ {i} : ~Running(inv[j])
InFlight(s) == s.pc \notin {"start", "returned", "raised"}

InitConc ==
    /\ tool \in NewTools
    /\ valves \in ConcConfigs(tool)
    /\ inv \in [Invocations ->
                  {NewInvocation(u, "title", q, p) :
                      u \in ConcUsers, q \in Queries,
                      p \in IF tool = PageTool THEN PageIds ELSE {"101"}}]
    /\ alone = inv
    /\ user = [nonempty |-> FALSE, has_valves |-> FALSE, valves |-> NoValves]
    /\ typeArg = "title"
    /\ query = <<>>
    /\ page_id = "101"
    /\ pc = "interleaved"
    /\ creds = [raised |-> FALSE, api_key_auth |-> TRUE, api_username |-> "", api_key |-> ""]
    /\ confluence = None
    /\ search_type = ""
    /\ searchResponse = <<>>
    /\ idx = 1
    /\ result = NoRecord
    /\ results = <<>>
    /\ exc = ""
    /\ ret = NoReturn
    /\ log = <<>>
    /\ qparams = [cql |-> <<>>, limit |-> 0]
    /\ body = <<>> /\ mode = "none" /\ stripped = <<>>

\* The variables of the single-invocation specifications, unused here
UnusedByConc == <<tool, user, typeArg, query, page_id, pc, creds, confluence, search_type,
                  searchResponse, idx, result, results, exc, ret, log,
                  qparams, body, mode, stripped>>

\* The event loop starts coroutine i: it runs up to its first await.
\* Run alone, it reads the same configuration at every later step.
BeginConc(i) ==
    /\ inv[i].pc = "start" /\ LoopFree(i)
    /\ inv' = [inv EXCEPT ![i] = [BeginOf(tool, @, valves) EXCEPT !.cfgs = {valves}]]
    /\ alone' = [alone EXCEPT ![i] = [BeginOf(tool, @, valves) EXCEPT !.cfgs = {valves}]]
    /\ UNCHANGED valves
    /\ UNCHANGED UnusedByConc

\* The configuration coroutine i started under
StartConfig(i) == CHOOSE v \in alone[i].cfgs : TRUE

\* The sink of coroutine i returns or raises, and the coroutine resumes
EmitConc(i) ==
    /\ inv[i].pc \in {"emit_invalid", "emit_progress", "emit_source",
                      "emit_complete", "emit_failed"}
    /\ LoopFree(i)
    /\ \E ok \in BOOLEAN :
         /\ inv' = [inv EXCEPT ![i] = EmitOf(tool, @, ok)]
         /\ alone' = [alone EXCEPT ![i] = EmitOf(tool, @, ok)]
    /\ UNCHANGED valves
    /\ UNCHANGED UnusedByConc

SearchCallConc(i) ==
    /\ inv[i].pc = "search" /\ LoopFree(i)
    /\ \E response \in ConcSearchResponses :
         /\ inv' = [inv EXCEPT ![i] = SearchCallOf(tool, @, valves, response)]
         /\ alone' = [alone EXCEPT ![i] = SearchCallOf(tool, @, StartConfig(i), response)]
    /\ UNCHANGED valves
    /\ UNCHANGED UnusedByConc

FetchPageConc(i) ==
    /\ inv[i].pc = "fetch" /\ LoopFree(i)
    /\ \E response \in PageResponses(FetchTargetOf(tool, inv[i])) :
         /\ inv' = [inv EXCEPT ![i] = FetchPageOf(tool, @, valves, response)]
         /\ alone' = [alone EXCEPT ![i] = FetchPageOf(tool, @, StartConfig(i), response)]
    /\ UNCHANGED valves
    /\ UNCHANGED UnusedByConc

\* An administrator saves new valves: self.valves is replaced while every
\* coroutine is suspended
ValvesChange ==
    /\ \A j \in Invocations : ~Running(inv[j])
    /\ \E v \in ConcConfigs(tool) \ {valves} :
         /\ valves' = v
         /\ inv' = [j \in Invocations |->
                       IF InFlight(inv[j]) THEN [inv[j] EXCEPT !.cfgs = @ \cup {v}]
                       ELSE inv[j]]
    /\ UNCHANGED alone
    /\ UNCHANGED UnusedByConc

NextConc ==
    \/ \E i \in Invocations : BeginConc(i)
    \/ \E i \in Invocations : EmitConc(i)
    \/ \E i \in Invocations : SearchCallConc(i)
    \/ \E i \in Invocations : FetchPageConc(i)
    \/ ValvesChange

SpecConc == InitConc /\ [][NextConc]_vars

----------------------------------------------------------------------------
(* C11: interleaved invocations and configuration changes *)

RequestsOf(s) == SelectSeq(s.log, IsRequest)
EventsOf(s) == SelectSeq(s.log, IsEvent)

\* Coroutine i has sent the requests, delivered the events and returned the
\* value of its run alone under the configuration it started with
AsIfAlone(i) ==
    /\ RequestsOf(inv[i]) = RequestsOf(alone[i])
    /\ EventsOf(inv[i]) = EventsOf(alone[i])
    /\ inv[i].ret = alone[i].ret

\* C11: when two invocations on one Tools instance interleave at their awaits,
\* and when self.valves is replaced while an invocation is suspended, each
\* invocation sends the requests (credentials, base URL, settings), delivers
\* the events and returns the value of its run alone under the configuration
\* in force when it started.
C11_AsIfAlone == \A i \in Invocations : AsIfAlone(i)

\* C11 for each tool: search_confluence reads self.valves.result_limit, and
\* get_confluence_page reads self.valves.strip_images, after the first await
C11_AsIfAlone_Search == tool = SearchTool => \A i \in Invocations : AsIfAlone(i)
C11_AsIfAlone_Page == tool = PageTool => \A i \in Invocations : AsIfAlone(i)

\* The part of C11 the code keeps: interleaving alone changes nothing.  An
\* invocation during which self.valves was never replaced runs as if alone,
\* whatever the other invocation does meanwhile.
C11_InterleavingOnly ==
    \A i \in Invocations : Cardinality(inv[i].cfgs) <= 1 => AsIfAlone(i)

\* The part of C11 the code keeps: the client of an invocation (base URL and
\* Authorization header) is the one built from the configuration in force when
\* the invocation started, on every request
C11_OwnClient ==
    \A i \in Invocations :
        \A k \in 1..Len(RequestsOf(inv[i])) :
            LET c == ResolveCredentials(StartConfig(i), inv[i].user)
                req == RequestsOf(inv[i])[k]
            IN  /\ req.url[1] = StartConfig(i).base_url
                /\ req.headers = authenticate(c.api_username, c.api_key, c.api_key_auth)

\* Both invocations are in flight at once, with different credentials, and
\* each has sent a request
C11_BothInFlight ==
    /\ \A i \in Invocations : InFlight(inv[i]) /\ RequestsOf(inv[i]) # <<>>
    /\ RequestsOf(inv[1])[1].headers # RequestsOf(inv[2])[1].headers

----------------------------------------------------------------------------
(* C12: the first page of a search that fails *)

\* Positions in log of the page requests whose response makes get_page raise
\* (a non-2xx status, or a payload without one of the fields the record needs)
FailedFetches ==
    {p \in 1..(Len(log) - 1) :
        /\ IsPageRequest(log[p])
        /\ get_page(tool, valves.base_url, log[p + 1], valves.strip_images).raised}

\* What get_page raises with
FetchErrors == {"Failed to get data from Confluence", "KeyError"}

\* C12: in a search invocation whose search call succeeded with ids p1..pN and
\* where the fetch or normalization of pk is the first to fail, no request
\* follows the failed one (pk is not asked for again, p(k+1)..pN are never
\* asked for), the citations delivered are exactly those of p1..p(k-1), in
\* order, each delivered before the failure, and the value returned is the
\* "Error: " string made of the exception text alone, with none of the k-1
\* records built before the failure.
C12_FirstFailureEnds ==
    (IsSearch(tool) /\ FailedFetches # {}) =>
        LET p == CHOOSE x \in FailedFetches : \A y \in FailedFetches : x <= y
            k == Len(PageRequests)
        IN  /\ SearchSucceeded
            /\ FailedFetches = {p}
            /\ \A q \in (p + 1)..Len(log) : ~IsRequest(log[q])
            /\ p = NthPos(IsPageRequest, k)
            /\ k <= Len(searchResponse)
            /\ RequestedId(log[p]) = searchResponse[k]
            /\ Len(Citations) = k - 1
            /\ \A i \in 1..(k - 1) :
                   /\ Citations[i].data.metadata[1].source = LinkOf(searchResponse[i])
                   /\ NthPos(IsCitation, i) < p
            /\ Len(results) = k - 1
            /\ pc # "emit_failed" => Terminated
            /\ pc = "returned" =>
                   /\ ErrorString(ret)
                   /\ ret.rest \in FetchErrors
                   /\ IsFailedStatus(log[Len(log)])

\* The second of two pages fails after the first was cited and recorded, and
\* the invocation has returned
C12_Witness ==
    /\ IsSearch(tool) /\ pc = "returned"
    /\ Len(searchResponse) = 2
    /\ FailedFetches # {}
    /\ Len(PageRequests) = 2
    /\ Len(Citations) = 1 /\ Len(results) = 1
    /\ ErrorString(ret)

----------------------------------------------------------------------------
(* C13: the final status and the return value *)

\* The status events with done = true the sink received
DoneStatuses == SelectSeq(Statuses, LAMBDA e : e.data.done)

\* Exactly one done status, with the failure glyph iff the return value is an
\* "Error: " string
OneAgreeingDoneStatus ==
    /\ Len(DoneStatuses) = 1
    /\ IsFailedStatus(DoneStatuses[1]) <=> ErrorString(ret)

\* No success status is followed by a failed status, or by an "Error: " return
SuccessIsFinal ==
    \A p \in 1..Len(log) :
        IsSuccessStatus(log[p]) =>
            /\ \A q \in (p + 1)..Len(log) : ~IsFailedStatus(log[q])
            /\ pc = "returned" => ~ErrorString(ret)

\* C13: every invocation of search_confluence or get_confluence_page that has
\* returned delivered exactly one status event with done = true, which carries
\* the failure glyph if and only if the returned string starts with "Error: ";
\* and a success status is never followed by a failed status or by an "Error: "
\* return, also when emitting the citation fails.
C13_OneFinalStatus ==
    /\ pc = "returned" => OneAgreeingDoneStatus
    /\ SuccessIsFinal

\* C13 for search_confluence, whose success status is its last await: holds
C13_OneFinalStatus_Search ==
    IsSearch(tool) => ((pc = "returned" => OneAgreeingDoneStatus) /\ SuccessIsFinal)

\* C13 for get_confluence_page, which emits the citation after the success status
C13_OneFinalStatus_Page ==
    IsPage(tool) => ((pc = "returned" => OneAgreeingDoneStatus) /\ SuccessIsFinal)

\* What the code keeps for both: the last done status agrees with the return
C13_LastStatusAgrees ==
    pc = "returned" =>
        /\ DoneStatuses # <<>>
        /\ IsFailedStatus(DoneStatuses[Len(DoneStatuses)]) <=> ErrorString(ret)

----------------------------------------------------------------------------
(* C14: the record of the search path and the record of the get-page path *)

\* search_confluence has just built the record of a returned id
SearchRecordBuilt == tool = SearchTool /\ pc = "emit_source" /\ IsResponse(log[Len(log)])

\* The record get_confluence_page builds from the payload the search path just
\* received, under the same base URL and configuration
PageToolRecord ==
    page_get_page(PageTool, confluence.base_url, log[Len(log)], valves.strip_images).value

\* C14: for the same raw page payload, base URL and configuration (image strip
\* policy "base64"), the record a search invocation builds for a returned id
\* equals, in id, title, body and link, the record get_confluence_page builds
\* for that id.
C14_SameRecord ==
    SearchRecordBuilt =>
        /\ valves.strip_images = "base64"
        /\ result.id = PageToolRecord.id
        /\ result.title = PageToolRecord.title
        /\ result.body = PageToolRecord.body
        /\ result.link = PageToolRecord.link

\* The part of C14 the code keeps: id, title and link are equal
C14_SameIdTitleLink ==
    SearchRecordBuilt =>
        /\ result.id = PageToolRecord.id
        /\ result.title = PageToolRecord.title
        /\ result.link = PageToolRecord.link

\* The part of C14 the code keeps: the bodies are equal when the markdown of
\* the page holds no image with a data: url, and the body of the search path is
\* always the markdown before any post-processing
C14_SameBodyWithoutDataImages ==
    SearchRecordBuilt =>
        /\ result.body = Markdownify(log[Len(log)].json.body.view.value)
        /\ DataRefs(result.body) = {} => result.body = PageToolRecord.body

\* Both cases happen: a page whose two records are equal, a page with a data:
\* image in the record of the search path
C14_EqualCase == SearchRecordBuilt /\ result = PageToolRecord
C14_DataImageCase == SearchRecordBuilt /\ DataRefs(result.body) # {}

====
